---------------------------- MODULE Spec2Model ----------------------------
(***************************************************************************)
(* A model of src/utils/csvImport.ts: the CSV line tokenizer, the header   *)
(* resolution of both importers, the category normalisation of the         *)
(* exercise importer and the whole workout importer (row loop, grouping    *)
(* by day, grouping and ordering of the sets).                             *)
(*                                                                         *)
(* Text is modelled as sequences of one-character strings, so that trim,   *)
(* toLowerCase, includes, parseInt and the tokenizer are computed the way  *)
(* the code computes them.                                                 *)
(***************************************************************************)
EXTENDS Integers, Sequences, FiniteSets, TLC

VARIABLES
    \* ---- parseCSVLine on one line
    tkFields,      \* the field values the line was written from
    tkLine,        \* the line handed to parseCSVLine
    tkResult,      \* what parseCSVLine returned
    tkPc,          \* "idle" | "ready" | "done"
    \* ---- header resolution of the two importers
    hdCells,       \* parseCSVLine(lines[0]): the cells of the header row
    hdSchema,      \* "none" | "exercises" | "workouts": the importer that ran
    hdIndices,     \* the column index found for each role (-1: none)
    hdError,       \* the Error thrown for a missing column, or NoError
    hdPc,          \* "idle" | "ready" | "done"
    \* ---- parseExercisesCSV
    exContent,     \* csvContent: the lines of the text, each as its cells
    exLines,       \* lines: csvContent.trim().split('\n')
    exIdx,         \* nameIndex, descriptionIndex, categoryIndex
    exI,           \* the loop variable i
    exercisesOut,  \* exercises: the rows pushed so far
    exError,       \* the Error thrown, or NoError
    exPc,          \* "idle" | "start" | "rows" | "done" | "failed"
    \* ---- parseWorkoutsCSV
    tz,            \* the time zone of the runtime: minutes east of UTC
    csvContent,    \* csvContent: the lines of the text, each as its cells
    exercises,     \* exercises: the catalog the caller supplies
    woLines,       \* lines: csvContent.trim().split('\n')
    woIdx,         \* dateIndex, exerciseNameIndex, ... (-1: none)
    woI,           \* the loop variable i
    workoutMap,    \* workoutMap, its entries in insertion order
    exerciseMap,   \* exerciseMap, its entries in insertion order
    newExercises,  \* newExercises
    nextId,        \* the number of identifiers crypto.randomUUID() handed out
    woResult,      \* the value returned, or NoResult
    woError,       \* the Error thrown, or NoError
    woPc           \* "idle" | "start" | "rows" | "done" | "failed"

tkVars == <<tkFields, tkLine, tkResult, tkPc>>
hdVars == <<hdCells, hdSchema, hdIndices, hdError, hdPc>>
exVars == <<exContent, exLines, exIdx, exI, exercisesOut, exError, exPc>>
woVars == <<tz, csvContent, exercises, woLines, woIdx, woI, workoutMap,
            exerciseMap, newExercises, nextId, woResult, woError, woPc>>
vars == <<tkVars, hdVars, exVars, woVars>>

----------------------------------------------------------------------------
(* Bounds of the model *)

MaxFields == 2      \* fields on a tokenized line
MaxFieldLen == 2    \* characters in a field of a tokenized line
MaxRows == 3           \* data lines of a workout file
MaxLeadingBlank == 1   \* blank lines before the header row of a workout file
MaxExerciseRows == 1   \* data lines of an exercise file
MaxCols == 4        \* columns of a header row

----------------------------------------------------------------------------
(* Strings *)

DQ == "\""
Comma == ","

WhiteSpace == {" ", "\t", "\r"}
LineTerminators == {"\n", "\r"}

Range(s) == {s[k] : k \in 1..Len(s)}

SeqsUpTo(S, n) == UNION {[1..k -> S] : k \in 0..n}

RECURSIVE TrimStart(_)
TrimStart(s) ==
    IF s # <<>> /\ Head(s) \in WhiteSpace THEN TrimStart(Tail(s)) ELSE s

RECURSIVE TrimEnd(_)
TrimEnd(s) ==
    IF s # <<>> /\ s[Len(s)] \in WhiteSpace
    THEN TrimEnd(SubSeq(s, 1, Len(s) - 1))
    ELSE s

\* String.prototype.trim
Trim(s) == TrimEnd(TrimStart(s))

UpperCase == <<"A", "B", "C", "D", "E", "F", "G", "H", "I", "J", "K", "L", "M",
               "N", "O", "P", "Q", "R", "S", "T", "U", "V", "W", "X", "Y", "Z">>
LowerCase == <<"a", "b", "c", "d", "e", "f", "g", "h", "i", "j", "k", "l", "m",
               "n", "o", "p", "q", "r", "s", "t", "u", "v", "w", "x", "y", "z">>

LowerChar(c) ==
    IF \E k \in 1..Len(UpperCase) : UpperCase[k] = c
    THEN LowerCase[CHOOSE k \in 1..Len(UpperCase) : UpperCase[k] = c]
    ELSE c

\* String.prototype.toLowerCase
ToLowerCase(s) == [k \in 1..Len(s) |-> LowerChar(s[k])]

\* String.prototype.includes
Includes(s, part) ==
    \E k \in 0..(Len(s) - Len(part)) : SubSeq(s, k + 1, k + Len(part)) = part

\* Array.prototype.findIndex, given for each element whether it satisfies
\* the predicate: the 0-based index of the first that does, -1 when none does.
FindIndex(matches) ==
    IF \E k \in 1..Len(matches) : matches[k]
    THEN (CHOOSE k \in 1..Len(matches) :
              matches[k] /\ \A j \in 1..(k - 1) : ~matches[j]) - 1
    ELSE -1

\* Array.prototype.join(', ')
RECURSIVE Join(_)
Join(arr) ==
    IF arr = <<>> THEN <<>>
    ELSE IF Len(arr) = 1 THEN arr[1]
    ELSE arr[1] \o <<",", " ">> \o Join(Tail(arr))

----------------------------------------------------------------------------
(* The values of the parts of the state a specification does not use *)

\* No error was thrown.
NoError == [message |-> <<>>]

\* No header was resolved yet.
NoIndices == [none |-> -1]

IdleLine ==
    /\ tkFields = <<>>
    /\ tkLine = <<>>
    /\ tkResult = <<>>
    /\ tkPc = "idle"

IdleHeaders ==
    /\ hdCells = <<>>
    /\ hdSchema = "none"
    /\ hdIndices = NoIndices
    /\ hdError = NoError
    /\ hdPc = "idle"

\* Nothing was returned.
NoResult == [workouts |-> <<>>, newExercises |-> <<>>, returned |-> FALSE]

IdleWorkouts ==
    /\ tz = 0
    /\ csvContent = <<>>
    /\ exercises = <<>>
    /\ woLines = <<>>
    /\ woIdx = NoIndices
    /\ woI = 0
    /\ workoutMap = <<>>
    /\ exerciseMap = <<>>
    /\ newExercises = <<>>
    /\ nextId = 0
    /\ woResult = NoResult
    /\ woError = NoError
    /\ woPc = "idle"

IdleExercises ==
    /\ exContent = <<>>
    /\ exLines = <<>>
    /\ exIdx = NoIndices
    /\ exI = 0
    /\ exercisesOut = <<>>
    /\ exError = NoError
    /\ exPc = "idle"

----------------------------------------------------------------------------
(* Lines and cells *)

\* A line is modelled by the cells parseCSVLine returns for it; a line that
\* is empty after trim() is the line without cells.
BlankLine == <<>>

RECURSIVE DropLeadingBlank(_)
DropLeadingBlank(content) ==
    IF content # <<>> /\ Head(content) = BlankLine
    THEN DropLeadingBlank(Tail(content))
    ELSE content

RECURSIVE DropTrailingBlank(_)
DropTrailingBlank(content) ==
    IF content # <<>> /\ content[Len(content)] = BlankLine
    THEN DropTrailingBlank(SubSeq(content, 1, Len(content) - 1))
    ELSE content

\* csvContent.trim().split('\n'): trim() removes the blank lines before the
\* first and after the last line with text; the split of an empty text is
\* one empty line.
TrimSplit(content) ==
    LET trimmed == DropTrailingBlank(DropLeadingBlank(content))
    IN  IF trimmed = <<>> THEN <<BlankLine>> ELSE trimmed

\* The value of an index expression past the end of an array
Undefined == <<"undefined">>

\* values[index]?.trim(), index 0-based
CellTrim(values, index) ==
    IF index >= 0 /\ index < Len(values) THEN Trim(values[index + 1]) ELSE Undefined

\* !s for a string or undefined
Falsy(s) == s = Undefined \/ s = <<>>

\* 'CSV must have at least a header row and one data row'
TooFewLinesError == [message |-> <<"too few lines">>]

----------------------------------------------------------------------------
(* parseCSVLine *)

\* field.replace(/^"(.*)"$/, '$1'); the dot of a regular expression matches
\* no line terminator.
StripSurroundingQuotes(field) ==
    IF /\ Len(field) >= 2
       /\ field[1] = DQ
       /\ field[Len(field)] = DQ
       /\ \A k \in 2..(Len(field) - 1) : field[k] \notin LineTerminators
    THEN SubSeq(field, 2, Len(field) - 1)
    ELSE field

\* The loop with the escaped-quote branch (lines 30-33) left out: every quote
\* toggles the quote state.
RECURSIVE ScanLineNoEscape(_, _, _, _, _)
ScanLineNoEscape(line, i, current, inQuotes, result) ==
    IF i > Len(line)
    THEN Append(result, Trim(current))
    ELSE LET char == line[i] IN
         IF char = DQ
         THEN ScanLineNoEscape(line, i + 1, current, ~inQuotes, result)
         ELSE IF char = Comma /\ ~inQuotes
              THEN ScanLineNoEscape(line, i + 1, <<>>, inQuotes,
                                    Append(result, Trim(current)))
              ELSE ScanLineNoEscape(line, i + 1, Append(current, char),
                                    inQuotes, result)

\* The while loop of parseCSVLine and the push after it; i is 1-based here.
RECURSIVE ScanLine(_, _, _, _, _)
ScanLine(line, i, current, inQuotes, result) ==
    IF i > Len(line)
    THEN Append(result, Trim(current))
    ELSE LET char == line[i] IN
         IF char = DQ
         THEN IF inQuotes /\ i + 1 <= Len(line) /\ line[i + 1] = DQ
              THEN ScanLine(line, i + 2, Append(current, DQ), inQuotes, result)
              ELSE ScanLine(line, i + 1, current, ~inQuotes, result)
         ELSE IF char = Comma /\ ~inQuotes
              THEN ScanLine(line, i + 1, <<>>, inQuotes,
                            Append(result, Trim(current)))
              ELSE ScanLine(line, i + 1, Append(current, char), inQuotes, result)

parseCSVLine(line) ==
    LET result == ScanLine(line, 1, <<>>, FALSE, <<>>)
    IN  [k \in 1..Len(result) |-> StripSurroundingQuotes(result[k])]

\* A line written from field values: each field in double quotes, a double
\* quote inside a field doubled, the fields joined by commas.
RECURSIVE EscapeQuotes(_)
EscapeQuotes(field) ==
    IF field = <<>> THEN <<>>
    ELSE (IF Head(field) = DQ THEN <<DQ, DQ>> ELSE <<Head(field)>>)
         \o EscapeQuotes(Tail(field))

QuoteField(field) == <<DQ>> \o EscapeQuotes(field) \o <<DQ>>

RECURSIVE JoinQuoted(_)
JoinQuoted(fields) ==
    IF Len(fields) = 1 THEN QuoteField(fields[1])
    ELSE QuoteField(Head(fields)) \o <<Comma>> \o JoinQuoted(Tail(fields))

FieldChars == {"a", " ", Comma, DQ}
FieldValues == SeqsUpTo(FieldChars, MaxFieldLen)
FieldRows == UNION {[1..n -> FieldValues] : n \in 1..MaxFields}

InitLine ==
    /\ IdleHeaders
    /\ IdleExercises
    /\ IdleWorkouts
    /\ tkFields \in FieldRows
    /\ tkLine = JoinQuoted(tkFields)
    /\ tkResult = <<>>
    /\ tkPc = "ready"

TokenizeLine ==
    /\ tkPc = "ready"
    /\ tkResult' = parseCSVLine(tkLine)
    /\ tkPc' = "done"
    /\ UNCHANGED <<tkFields, tkLine, hdVars, exVars, woVars>>

NextLine == TokenizeLine

SpecLine == InitLine /\ [][NextLine]_vars

NoSurroundingWhiteSpace(field) == Trim(field) = field

\* C10 (as claimed): parseCSVLine on a line of double-quoted fields joined by
\* commas returns exactly the original field values, for all fields without
\* surrounding whitespace, commas and double quotes included.
C10_RoundTripExact ==
    (tkPc = "done" /\ \A k \in 1..Len(tkFields) : NoSurroundingWhiteSpace(tkFields[k]))
        => tkResult = tkFields

\* What comes back for one field value: a value of two or more characters
\* that begins and ends with a double quote loses that pair.
ReadBack(field) ==
    IF Len(field) >= 2 /\ Head(field) = DQ /\ field[Len(field)] = DQ
    THEN [k \in 1..(Len(field) - 2) |-> field[k + 1]]
    ELSE field

\* C10 (amended): the fields come back in number and order, each exactly as
\* written, except that a field value of two or more characters that both
\* begins and ends with a literal double quote comes back without that
\* first and last quote.
C10_RoundTripUpToOuterQuotes ==
    (tkPc = "done" /\ \A k \in 1..Len(tkFields) : NoSurroundingWhiteSpace(tkFields[k]))
        => /\ Len(tkResult) = Len(tkFields)
           /\ \A k \in 1..Len(tkFields) : tkResult[k] = ReadBack(tkFields[k])

\* C10 witness: a field with a comma and a doubled quote at its end was
\* tokenized, next to a second field, and came back as written.
C10_Witness ==
    /\ tkPc = "done"
    /\ Len(tkFields) = 2
    /\ tkFields[1] = <<Comma, DQ>>
    /\ tkResult[1] = <<Comma, DQ>>

----------------------------------------------------------------------------
(* The string literals of the header predicates *)

s_name == <<"n", "a", "m", "e">>
s_exercise == <<"e", "x", "e", "r", "c", "i", "s", "e">>
s_exercise_name == <<"e", "x", "e", "r", "c", "i", "s", "e", "_", "n", "a", "m", "e">>
s_description == <<"d", "e", "s", "c", "r", "i", "p", "t", "i", "o", "n">>
s_desc == <<"d", "e", "s", "c">>
s_category == <<"c", "a", "t", "e", "g", "o", "r", "y">>
s_type == <<"t", "y", "p", "e">>
s_muscle_group == <<"m", "u", "s", "c", "l", "e", "_", "g", "r", "o", "u", "p">>
s_date == <<"d", "a", "t", "e">>
s_exercisename == <<"e", "x", "e", "r", "c", "i", "s", "e", "n", "a", "m", "e">>
s_exercisecategory == <<"e", "x", "e", "r", "c", "i", "s", "e", "c", "a", "t", "e", "g", "o", "r", "y">>
s_exercise_category == <<"e", "x", "e", "r", "c", "i", "s", "e", "_", "c", "a", "t", "e", "g", "o", "r", "y">>
s_setnumber == <<"s", "e", "t", "n", "u", "m", "b", "e", "r">>
s_set_number == <<"s", "e", "t", "_", "n", "u", "m", "b", "e", "r">>
s_set == <<"s", "e", "t">>
s_number == <<"n", "u", "m", "b", "e", "r">>
s_reps == <<"r", "e", "p", "s">>
s_repetitions == <<"r", "e", "p", "e", "t", "i", "t", "i", "o", "n", "s">>
s_setnotes == <<"s", "e", "t", "n", "o", "t", "e", "s">>
s_set_notes == <<"s", "e", "t", "_", "n", "o", "t", "e", "s">>
s_notes == <<"n", "o", "t", "e", "s">>
s_workoutnotes == <<"w", "o", "r", "k", "o", "u", "t", "n", "o", "t", "e", "s">>
s_workout_notes == <<"w", "o", "r", "k", "o", "u", "t", "_", "n", "o", "t", "e", "s">>
s_workout == <<"w", "o", "r", "k", "o", "u", "t">>

----------------------------------------------------------------------------
(* Header resolution *)

\* parseCSVLine(lines[0]).map(h => h.toLowerCase().trim())
Headers(cells) == [k \in 1..Len(cells) |-> Trim(ToLowerCase(cells[k]))]

\* parseExercisesCSV: the three findIndex predicates
IsNameHeader(h) ==
    h = s_name \/ h = s_exercise \/ h = s_exercise_name \/ Includes(h, s_name)

IsDescriptionHeader(h) ==
    h = s_description \/ h = s_desc \/ Includes(h, s_description)

IsCategoryHeader(h) ==
    h = s_category \/ h = s_type \/ h = s_muscle_group \/ Includes(h, s_category)

ExerciseHeaderIndices(headers) ==
    [name |->
         FindIndex([k \in DOMAIN headers |-> IsNameHeader(headers[k])]),
     description |->
         FindIndex([k \in DOMAIN headers |-> IsDescriptionHeader(headers[k])]),
     category |->
         FindIndex([k \in DOMAIN headers |-> IsCategoryHeader(headers[k])])]

\* parseWorkoutsCSV: the seven findIndex predicates
IsDateHeader(h) == h = s_date \/ Includes(h, s_date)

IsExerciseNameHeader(h) ==
    \/ h = s_exercisename
    \/ h = s_exercise_name
    \/ h = s_exercise
    \/ (Includes(h, s_exercise) /\ Includes(h, s_name))

IsExerciseCategoryHeader(h) ==
    \/ h = s_exercisecategory
    \/ h = s_exercise_category
    \/ (Includes(h, s_exercise) /\ Includes(h, s_category))

IsSetNumberHeader(h) ==
    \/ h = s_setnumber
    \/ h = s_set_number
    \/ h = s_set
    \/ (Includes(h, s_set) /\ Includes(h, s_number))

IsRepsHeader(h) == h = s_reps \/ Includes(h, s_reps) \/ h = s_repetitions

IsSetNotesHeader(h) ==
    h = s_setnotes \/ h = s_set_notes \/ (Includes(h, s_set) /\ Includes(h, s_notes))

IsWorkoutNotesHeader(h) ==
    \/ h = s_workoutnotes
    \/ h = s_workout_notes
    \/ (Includes(h, s_workout) /\ Includes(h, s_notes))

WorkoutHeaderIndices(headers) ==
    [date |->
         FindIndex([k \in DOMAIN headers |-> IsDateHeader(headers[k])]),
     exerciseName |->
         FindIndex([k \in DOMAIN headers |-> IsExerciseNameHeader(headers[k])]),
     exerciseCategory |->
         FindIndex([k \in DOMAIN headers |-> IsExerciseCategoryHeader(headers[k])]),
     setNumber |->
         FindIndex([k \in DOMAIN headers |-> IsSetNumberHeader(headers[k])]),
     reps |->
         FindIndex([k \in DOMAIN headers |-> IsRepsHeader(headers[k])]),
     setNotes |->
         FindIndex([k \in DOMAIN headers |-> IsSetNotesHeader(headers[k])]),
     workoutNotes |->
         FindIndex([k \in DOMAIN headers |-> IsWorkoutNotesHeader(headers[k])])]

\* The messages of the errors thrown for a missing column
\* 'CSV must have a "name" column. Found headers: '
MsgNameColumn ==
    <<"C", "S", "V", " ", "m", "u", "s", "t", " ", "h", "a", "v", "e", " ",
      "a", " ", "\"", "n", "a", "m", "e", "\"", " ", "c", "o", "l", "u",
      "m", "n", ".", " ", "F", "o", "u", "n", "d", " ", "h", "e", "a", "d",
      "e", "r", "s", ":", " ">>

\* 'CSV must have a "category" column. Found headers: '
MsgCategoryColumn ==
    <<"C", "S", "V", " ", "m", "u", "s", "t", " ", "h", "a", "v", "e", " ",
      "a", " ", "\"", "c", "a", "t", "e", "g", "o", "r", "y", "\"", " ",
      "c", "o", "l", "u", "m", "n", ".", " ", "F", "o", "u", "n", "d", " ",
      "h", "e", "a", "d", "e", "r", "s", ":", " ">>

\* 'CSV must have a "date" column'
MsgDateColumn ==
    <<"C", "S", "V", " ", "m", "u", "s", "t", " ", "h", "a", "v", "e", " ",
      "a", " ", "\"", "d", "a", "t", "e", "\"", " ", "c", "o", "l", "u",
      "m", "n">>

\* 'CSV must have an "exerciseName" column'
MsgExerciseNameColumn ==
    <<"C", "S", "V", " ", "m", "u", "s", "t", " ", "h", "a", "v", "e", " ",
      "a", "n", " ", "\"", "e", "x", "e", "r", "c", "i", "s", "e", "N",
      "a", "m", "e", "\"", " ", "c", "o", "l", "u", "m", "n">>

\* 'CSV must have a "reps" column'
MsgRepsColumn ==
    <<"C", "S", "V", " ", "m", "u", "s", "t", " ", "h", "a", "v", "e", " ",
      "a", " ", "\"", "r", "e", "p", "s", "\"", " ", "c", "o", "l", "u",
      "m", "n">>

\* 'CSV must have a "setNumber" column for proper set position tracking'
MsgSetNumberColumn ==
    <<"C", "S", "V", " ", "m", "u", "s", "t", " ", "h", "a", "v", "e", " ",
      "a", " ", "\"", "s", "e", "t", "N", "u", "m", "b", "e", "r", "\"",
      " ", "c", "o", "l", "u", "m", "n", " ", "f", "o", "r", " ", "p", "r",
      "o", "p", "e", "r", " ", "s", "e", "t", " ", "p", "o", "s", "i", "t",
      "i", "o", "n", " ", "t", "r", "a", "c", "k", "i", "n", "g">>

\* parseExercisesCSV, the two throws after the header resolution
ExerciseHeaderError(headers) ==
    LET idx == ExerciseHeaderIndices(headers) IN
    IF idx.name = -1 THEN [message |-> MsgNameColumn \o Join(headers)]
    ELSE IF idx.category = -1 THEN [message |-> MsgCategoryColumn \o Join(headers)]
    ELSE NoError

\* parseWorkoutsCSV, the four throws after the header resolution
WorkoutHeaderError(headers) ==
    LET idx == WorkoutHeaderIndices(headers) IN
    IF idx.date = -1 THEN [message |-> MsgDateColumn]
    ELSE IF idx.exerciseName = -1 THEN [message |-> MsgExerciseNameColumn]
    ELSE IF idx.reps = -1 THEN [message |-> MsgRepsColumn]
    ELSE IF idx.setNumber = -1 THEN [message |-> MsgSetNumberColumn]
    ELSE NoError

\* The cells a header row is drawn from
c_name == <<"n", "a", "m", "e">>
c_filename == <<"f", "i", "l", "e", "n", "a", "m", "e">>
c_category == <<"c", "a", "t", "e", "g", "o", "r", "y">>
c_Type == <<"T", "y", "p", "e">>
c_description == <<"d", "e", "s", "c", "r", "i", "p", "t", "i", "o", "n">>
c_Date == <<"D", "a", "t", "e">>
c_updated == <<"u", "p", "d", "a", "t", "e", "d">>
c_exerciseName == <<"e", "x", "e", "r", "c", "i", "s", "e", "N", "a", "m", "e">>
c_setNumber == <<"s", "e", "t", "N", "u", "m", "b", "e", "r">>
c_reps == <<"r", "e", "p", "s">>

HeaderCells ==
    {c_name, c_filename, c_category, c_Type, c_description,
     c_Date, c_updated, c_exerciseName, c_setNumber, c_reps}

HeaderRows == UNION {[1..n -> HeaderCells] : n \in 1..MaxCols}

InitHeaders ==
    /\ IdleLine
    /\ IdleExercises
    /\ IdleWorkouts
    /\ hdCells \in HeaderRows
    /\ hdSchema = "none"
    /\ hdIndices = NoIndices
    /\ hdError = NoError
    /\ hdPc = "ready"

\* parseExercisesCSV up to the checks of the required columns
ResolveExerciseHeaders ==
    /\ hdPc = "ready"
    /\ hdSchema' = "exercises"
    /\ hdIndices' = ExerciseHeaderIndices(Headers(hdCells))
    /\ hdError' = ExerciseHeaderError(Headers(hdCells))
    /\ hdPc' = "done"
    /\ UNCHANGED <<hdCells, tkVars, exVars, woVars>>

\* parseWorkoutsCSV up to the checks of the required columns
ResolveWorkoutHeaders ==
    /\ hdPc = "ready"
    /\ hdSchema' = "workouts"
    /\ hdIndices' = WorkoutHeaderIndices(Headers(hdCells))
    /\ hdError' = WorkoutHeaderError(Headers(hdCells))
    /\ hdPc' = "done"
    /\ UNCHANGED <<hdCells, tkVars, exVars, woVars>>

NextHeaders == ResolveExerciseHeaders \/ ResolveWorkoutHeaders

SpecHeaders == InitHeaders /\ [][NextHeaders]_vars

----------------------------------------------------------------------------
(* Claims about the header resolution *)

\* The roles of the two schemas as the claims describe them: the exact-match
\* candidates of a role, and the substring fallback of a role.
ExactCandidates(role) ==
    CASE role = "name"             -> {s_name, s_exercise, s_exercise_name}
      [] role = "description"      -> {s_description, s_desc}
      [] role = "category"         -> {s_category, s_type, s_muscle_group}
      [] role = "date"             -> {s_date}
      [] role = "exerciseName"     -> {s_exercisename, s_exercise_name, s_exercise}
      [] role = "exerciseCategory" -> {s_exercisecategory, s_exercise_category}
      [] role = "setNumber"        -> {s_setnumber, s_set_number, s_set}
      [] role = "reps"             -> {s_reps, s_repetitions}
      [] role = "setNotes"         -> {s_setnotes, s_set_notes}
      [] role = "workoutNotes"     -> {s_workoutnotes, s_workout_notes}

ContainsMarker(role, h) ==
    CASE role = "name"             -> Includes(h, s_name)
      [] role = "description"      -> Includes(h, s_description)
      [] role = "category"         -> Includes(h, s_category)
      [] role = "date"             -> Includes(h, s_date)
      [] role = "exerciseName"     -> Includes(h, s_exercise) /\ Includes(h, s_name)
      [] role = "exerciseCategory" -> Includes(h, s_exercise) /\ Includes(h, s_category)
      [] role = "setNumber"        -> Includes(h, s_set) /\ Includes(h, s_number)
      [] role = "reps"             -> Includes(h, s_reps)
      [] role = "setNotes"         -> Includes(h, s_set) /\ Includes(h, s_notes)
      [] role = "workoutNotes"     -> Includes(h, s_workout) /\ Includes(h, s_notes)

ResolvedAsClaimed(headers, role, idx) ==
    LET exact  == {k \in 1..Len(headers) : headers[k] \in ExactCandidates(role)}
        marked == {k \in 1..Len(headers) : ContainsMarker(role, headers[k])}
    IN  /\ exact # {} => (idx + 1) \in exact
        /\ (exact = {} /\ marked # {}) =>
               /\ (idx + 1) \in marked
               /\ \A k \in marked : idx + 1 <= k
        /\ (exact = {} /\ marked = {}) => idx = -1

\* C9: for each role of both schemas, a header that exactly equals one of the
\* role's exact-match candidates is chosen before any header that merely
\* contains the marker word, whatever the column order; the first header
\* containing the marker is chosen only when no header matches exactly; the
\* index is -1 when no header matches.
C9_ExactBeforeSubstring ==
    hdPc = "done" =>
        \A role \in DOMAIN hdIndices :
            ResolvedAsClaimed(Headers(hdCells), role, hdIndices[role])

\* The name by which an error message calls a role
r_exerciseName == <<"e", "x", "e", "r", "c", "i", "s", "e", "N", "a", "m", "e">>
r_setNumber == <<"s", "e", "t", "N", "u", "m", "b", "e", "r">>

RoleName(role) ==
    CASE role = "name"         -> s_name
      [] role = "category"     -> s_category
      [] role = "date"         -> s_date
      [] role = "exerciseName" -> r_exerciseName
      [] role = "reps"         -> s_reps
      [] role = "setNumber"    -> r_setNumber

RequiredRoles(schema) ==
    IF schema = "exercises" THEN {"name", "category"}
    ELSE {"date", "exerciseName", "reps", "setNumber"}

\* C7: in both importers, when a required header role is unresolved the
\* import fails with an error that names a missing column and lists all the
\* headers found in the header row.
C7_MissingColumnListsHeaders ==
    (hdPc = "done" /\ \E role \in RequiredRoles(hdSchema) : hdIndices[role] = -1)
        => /\ hdError # NoError
           /\ \E role \in RequiredRoles(hdSchema) :
                  /\ hdIndices[role] = -1
                  /\ Includes(hdError.message, RoleName(role))
           /\ Includes(hdError.message, Join(Headers(hdCells)))

----------------------------------------------------------------------------
(* The category tokens (the case labels of the switch of parseExercisesCSV) *)

t_abs == <<"a", "b", "s">>
t_abdominals == <<"a", "b", "d", "o", "m", "i", "n", "a", "l", "s">>
t_core == <<"c", "o", "r", "e">>
t_stomach == <<"s", "t", "o", "m", "a", "c", "h">>
t_legs == <<"l", "e", "g", "s">>
t_leg == <<"l", "e", "g">>
t_lower_body == <<"l", "o", "w", "e", "r", " ", "b", "o", "d", "y">>
t_quads == <<"q", "u", "a", "d", "s">>
t_hamstrings == <<"h", "a", "m", "s", "t", "r", "i", "n", "g", "s">>
t_calves == <<"c", "a", "l", "v", "e", "s">>
t_arms == <<"a", "r", "m", "s">>
t_arm == <<"a", "r", "m">>
t_biceps == <<"b", "i", "c", "e", "p", "s">>
t_triceps == <<"t", "r", "i", "c", "e", "p", "s">>
t_forearms == <<"f", "o", "r", "e", "a", "r", "m", "s">>
t_back == <<"b", "a", "c", "k">>
t_lats == <<"l", "a", "t", "s">>
t_latissimus == <<"l", "a", "t", "i", "s", "s", "i", "m", "u", "s">>
t_rhomboids == <<"r", "h", "o", "m", "b", "o", "i", "d", "s">>
t_traps == <<"t", "r", "a", "p", "s">>
t_shoulders == <<"s", "h", "o", "u", "l", "d", "e", "r", "s">>
t_shoulder == <<"s", "h", "o", "u", "l", "d", "e", "r">>
t_delts == <<"d", "e", "l", "t", "s">>
t_deltoids == <<"d", "e", "l", "t", "o", "i", "d", "s">>
t_chest == <<"c", "h", "e", "s", "t">>
t_pecs == <<"p", "e", "c", "s">>
t_pectorals == <<"p", "e", "c", "t", "o", "r", "a", "l", "s">>
t_cardio == <<"c", "a", "r", "d", "i", "o">>
t_cardiovascular == <<"c", "a", "r", "d", "i", "o", "v", "a", "s", "c", "u", "l", "a", "r">>
t_aerobic == <<"a", "e", "r", "o", "b", "i", "c">>
t_conditioning == <<"c", "o", "n", "d", "i", "t", "i", "o", "n", "i", "n", "g">>
t_full_body == <<"f", "u", "l", "l", "-", "b", "o", "d", "y">>
t_full_space_body == <<"f", "u", "l", "l", " ", "b", "o", "d", "y">>
t_fullbody == <<"f", "u", "l", "l", "b", "o", "d", "y">>
t_compound == <<"c", "o", "m", "p", "o", "u", "n", "d">>
t_total_body == <<"t", "o", "t", "a", "l", " ", "b", "o", "d", "y">>

\* validCategories
validCategories ==
    <<t_abs, t_legs, t_arms, t_back, t_shoulders, t_chest, t_cardio, t_full_body>>

\* The case labels that lead to each assignment of the switch
Labels_abs == {t_abs, t_abdominals, t_core, t_stomach}
Labels_legs == {t_legs, t_leg, t_lower_body, t_quads, t_hamstrings, t_calves}
Labels_arms == {t_arms, t_arm, t_biceps, t_triceps, t_forearms}
Labels_back == {t_back, t_lats, t_latissimus, t_rhomboids, t_traps}
Labels_shoulders == {t_shoulders, t_shoulder, t_delts, t_deltoids}
Labels_chest == {t_chest, t_pecs, t_pectorals}
Labels_cardio == {t_cardio, t_cardiovascular, t_aerobic, t_conditioning}
Labels_full_body == {t_full_body, t_full_space_body, t_fullbody, t_compound, t_total_body}

\* The switch with its default branch assigning the token itself (the
\* fallback to 'full-body' forgotten).
NormalizeCategoryNoDefault(categoryRaw) ==
    CASE categoryRaw \in Labels_abs -> t_abs
      [] categoryRaw \in Labels_legs -> t_legs
      [] categoryRaw \in Labels_arms -> t_arms
      [] categoryRaw \in Labels_back -> t_back
      [] categoryRaw \in Labels_shoulders -> t_shoulders
      [] categoryRaw \in Labels_chest -> t_chest
      [] categoryRaw \in Labels_cardio -> t_cardio
      [] categoryRaw \in Labels_full_body -> t_full_body
      [] OTHER -> categoryRaw

\* The switch on categoryRaw; the default branch assigns 'full-body'.
NormalizeCategory(categoryRaw) ==
    CASE categoryRaw \in Labels_abs -> t_abs
      [] categoryRaw \in Labels_legs -> t_legs
      [] categoryRaw \in Labels_arms -> t_arms
      [] categoryRaw \in Labels_back -> t_back
      [] categoryRaw \in Labels_shoulders -> t_shoulders
      [] categoryRaw \in Labels_chest -> t_chest
      [] categoryRaw \in Labels_cardio -> t_cardio
      [] categoryRaw \in Labels_full_body -> t_full_body
      [] OTHER -> t_full_body


----------------------------------------------------------------------------
(* parseExercisesCSV *)

\* The first statements: trim and split, the check of the number of lines,
\* the header resolution and the checks of the required columns.
ExStart ==
    /\ exPc = "start"
    /\ LET lines   == TrimSplit(exContent)
           headers == Headers(lines[1])
       IN  /\ exLines' = lines
           /\ IF Len(lines) < 2
              THEN /\ exError' = TooFewLinesError
                   /\ exPc' = "failed"
                   /\ UNCHANGED exIdx
              ELSE /\ exIdx' = ExerciseHeaderIndices(headers)
                   /\ exError' = ExerciseHeaderError(headers)
                   /\ exPc' = IF ExerciseHeaderError(headers) = NoError
                              THEN "rows" ELSE "failed"
    /\ exI' = 1
    /\ UNCHANGED <<exContent, exercisesOut, tkVars, hdVars, woVars>>

\* One pass of the for loop: lines[i], i 0-based as in the code. The row
\* pushed carries the index of its line, which the code does not keep.
ExProcessLine ==
    /\ exPc = "rows"
    /\ exI < Len(exLines)
    /\ LET values      == exLines[exI + 1]
           name        == CellTrim(values, exIdx.name)
           cell        == CellTrim(values, exIdx.category)
           categoryRaw == IF cell = Undefined THEN Undefined ELSE ToLowerCase(cell)
           description == IF exIdx.description >= 0
                          THEN CellTrim(values, exIdx.description)
                          ELSE <<>>
       IN  IF values = BlankLine \/ Falsy(name)
           THEN UNCHANGED exercisesOut
           ELSE exercisesOut' = Append(exercisesOut,
                    [name        |-> name,
                     description |-> IF Falsy(description) THEN Undefined
                                     ELSE description,
                     category    |-> NormalizeCategory(categoryRaw),
                     line        |-> exI])
    /\ exI' = exI + 1
    /\ UNCHANGED <<exContent, exLines, exIdx, exError, exPc, tkVars, hdVars, woVars>>

\* return exercises
ExReturn ==
    /\ exPc = "rows"
    /\ exI = Len(exLines)
    /\ exPc' = "done"
    /\ UNCHANGED <<exContent, exLines, exIdx, exI, exercisesOut, exError,
                   tkVars, hdVars, woVars>>

NextExercises == ExStart \/ ExProcessLine \/ ExReturn

\* The exercise files of the model: a header row and up to MaxExerciseRows
\* lines, each blank, without the category cell, without a name, or a name
\* with a category cell.
n_Plank == <<"P", "l", "a", "n", "k">>
t_yoga == <<"y", "o", "g", "a">>
t_ABS == <<"A", "B", "S">>
t_Core_padded == <<" ", "C", "o", "r", "e", " ">>

SynonymTable ==
    UNION {Labels_abs, Labels_legs, Labels_arms, Labels_back,
           Labels_shoulders, Labels_chest, Labels_cardio, Labels_full_body}

CategoryCells == SynonymTable \cup {t_yoga, t_ABS, t_Core_padded, <<>>}

ExerciseHeaderRows == {<<c_name, c_category, c_description>>, <<c_Type, c_name>>, <<c_name>>}

\* The cells of a data line under a header row
ExerciseDataLines(header) ==
    IF header = <<c_Type, c_name>>
    THEN {BlankLine, <<t_core>>, <<t_core, <<>>>>}
         \cup {<<c, n_Plank>> : c \in CategoryCells}
    ELSE {BlankLine, <<n_Plank>>, <<<<>>, t_core, <<>>>>}
         \cup {<<n_Plank, c, <<"d">>>> : c \in CategoryCells}

InitExercises ==
    /\ IdleLine
    /\ IdleHeaders
    /\ IdleWorkouts
    /\ \E header \in ExerciseHeaderRows :
       \E n \in 0..MaxExerciseRows :
       \E rows \in [1..n -> ExerciseDataLines(header)] :
           exContent = <<header>> \o rows
    /\ exLines = <<>>
    /\ exIdx = NoIndices
    /\ exI = 0
    /\ exercisesOut = <<>>
    /\ exError = NoError
    /\ exPc = "start"

SpecExercises == InitExercises /\ [][NextExercises]_vars

----------------------------------------------------------------------------
(* Claims about the category normalisation *)

\* The eight canonical categories
CanonicalCategories ==
    {t_abs, t_legs, t_arms, t_back, t_shoulders, t_chest, t_cardio, t_full_body}

\* The synonyms the documentation lists, each with its canonical category
DocumentedSynonyms ==
    {<<t_core, t_abs>>, <<t_stomach, t_abs>>,
     <<t_lower_body, t_legs>>, <<t_quads, t_legs>>,
     <<t_hamstrings, t_legs>>, <<t_calves, t_legs>>,
     <<t_biceps, t_arms>>, <<t_triceps, t_arms>>, <<t_forearms, t_arms>>,
     <<t_lats, t_back>>, <<t_traps, t_back>>,
     <<t_delts, t_shoulders>>, <<t_deltoids, t_shoulders>>,
     <<t_pecs, t_chest>>, <<t_pectorals, t_chest>>,
     <<t_aerobic, t_cardio>>, <<t_conditioning, t_cardio>>,
     <<t_compound, t_full_body>>, <<t_total_body, t_full_body>>}

\* The lower-cased, trimmed category token of the line a row came from
TokenOf(row) ==
    LET cell == CellTrim(exLines[row.line + 1], exIdx.category)
    IN  IF cell = Undefined THEN Undefined ELSE ToLowerCase(cell)

\* The data lines read so far that carry a name
NamedLines ==
    {j \in 1..(exI - 1) :
        /\ exLines[j + 1] # BlankLine
        /\ ~Falsy(CellTrim(exLines[j + 1], exIdx.name))}

\* C8: category normalisation is total and idempotent: for every lower-cased,
\* trimmed token, absent and empty included, the category of the row is one
\* of the eight canonical ones; a token of the synonym table maps to its
\* documented category, any other token to full-body, and no token fails the
\* import or drops the row; normalising the category again returns it.
C8_CategoryTotalIdempotent ==
    exPc \in {"rows", "done"} =>
        /\ {exercisesOut[k].line : k \in 1..Len(exercisesOut)} = NamedLines
        /\ exError = NoError
        /\ \A k \in 1..Len(exercisesOut) :
               LET row == exercisesOut[k] IN
               /\ row.category \in CanonicalCategories
               /\ \A d \in DocumentedSynonyms :
                      TokenOf(row) = d[1] => row.category = d[2]
               /\ TokenOf(row) \in CanonicalCategories => row.category = TokenOf(row)
               /\ TokenOf(row) \notin SynonymTable => row.category = t_full_body
               /\ NormalizeCategory(row.category) = row.category

\* C8 witness: an import returned the row of a token outside the synonym
\* table, with the category full-body.
C8_Witness ==
    /\ exPc = "done"
    /\ Len(exercisesOut) = 1
    /\ TokenOf(exercisesOut[1]) = t_yoga
    /\ exercisesOut[1].category = t_full_body

----------------------------------------------------------------------------
(* Numbers and dates *)

Digits == <<"0", "1", "2", "3", "4", "5", "6", "7", "8", "9">>
HexLetters == <<"a", "b", "c", "d", "e", "f">>

IsDigit(c) == \E k \in 1..10 : Digits[k] = c

\* The value of a digit in a radix, -1 for any other character
DigitValue(c, radix) ==
    IF IsDigit(c) THEN (CHOOSE k \in 1..10 : Digits[k] = c) - 1
    ELSE IF radix = 16 /\ \E k \in 1..6 : HexLetters[k] = LowerChar(c)
    THEN (CHOOSE k \in 1..6 : HexLetters[k] = LowerChar(c)) + 9
    ELSE -1

\* The longest prefix of digits of s from position k on, as a number;
\* acc is the value so far and any tells whether a digit was read.
RECURSIVE ReadDigits(_, _, _, _, _)
ReadDigits(s, k, radix, acc, any) ==
    IF k <= Len(s) /\ DigitValue(s[k], radix) >= 0
    THEN ReadDigits(s, k + 1, radix, acc * radix + DigitValue(s[k], radix), TRUE)
    ELSE [nan |-> ~any, value |-> acc]

\* NaN
NaN == [nan |-> TRUE, value |-> 0]

\* parseInt(string) without a radix: leading whitespace is skipped, a sign
\* is read, a prefix 0x or 0X selects radix 16, the longest prefix of digits
\* is the value and what follows it is ignored; NaN when no digit is read.
ParseInt(string) ==
    LET s      == TrimStart(string)
        signed == s # <<>> /\ Head(s) \in {"+", "-"}
        sign   == IF s # <<>> /\ Head(s) = "-" THEN -1 ELSE 1
        body   == IF signed THEN Tail(s) ELSE s
        hex    == Len(body) >= 2 /\ body[1] = "0" /\ body[2] \in {"x", "X"}
        read   == IF hex THEN ReadDigits(body, 3, 16, 0, FALSE)
                  ELSE ReadDigits(body, 1, 10, 0, FALSE)
    IN  IF read.nan THEN NaN ELSE [nan |-> FALSE, value |-> sign * read.value]

\* The number two decimal digits or four decimal digits of s at position k
\* denote
Number2(s, k) == DigitValue(s[k], 10) * 10 + DigitValue(s[k + 1], 10)
Number4(s, k) == Number2(s, k) * 100 + Number2(s, k + 2)

\* Days from 1970-01-01 to the day d of the month m of the year y
DaysFromCivil(y, m, d) ==
    LET yy  == IF m <= 2 THEN y - 1 ELSE y
        era == yy \div 400
        yoe == yy - era * 400
        mp  == IF m > 2 THEN m - 3 ELSE m + 9
        doy == (153 * mp + 2) \div 5 + d - 1
        doe == yoe * 365 + yoe \div 4 - yoe \div 100 + doy
    IN  era * 146097 + doe - 719468

MinutesPerDay == 1440

\* The text has the form YYYY-MM-DD
IsDateOnlyForm(s) ==
    /\ Len(s) = 10
    /\ \A k \in {1, 2, 3, 4, 6, 7, 9, 10} : IsDigit(s[k])
    /\ s[5] = "-" /\ s[8] = "-"
    /\ Number2(s, 6) \in 1..12
    /\ Number2(s, 9) \in 1..31

\* The text has the form YYYY-MM-DD HH:MM or YYYY-MM-DDTHH:MM
IsDateTimeForm(s) ==
    /\ Len(s) = 16
    /\ IsDateOnlyForm(SubSeq(s, 1, 10))
    /\ s[11] \in {" ", "T"}
    /\ \A k \in {12, 13, 15, 16} : IsDigit(s[k])
    /\ s[14] = ":"
    /\ Number2(s, 12) \in 0..23
    /\ Number2(s, 15) \in 0..59

\* new Date(dateStr).getTime() in minutes, for the two forms of text above:
\* a text with a date only is read as midnight UTC of that day, a text with
\* a time and no offset as that time in the zone of the runtime. Any other
\* text of the model is no date: Invalid Date, whose time is NaN.
DateTime(dateStr, zone) ==
    IF IsDateOnlyForm(dateStr)
    THEN [nan   |-> FALSE,
          value |-> DaysFromCivil(Number4(dateStr, 1), Number2(dateStr, 6),
                                  Number2(dateStr, 9)) * MinutesPerDay]
    ELSE IF IsDateTimeForm(dateStr)
    THEN [nan   |-> FALSE,
          value |-> DaysFromCivil(Number4(dateStr, 1), Number2(dateStr, 6),
                                  Number2(dateStr, 9)) * MinutesPerDay
                    + Number2(dateStr, 12) * 60 + Number2(dateStr, 15) - zone]
    ELSE NaN

\* date.toDateString(): the calendar day of the time in the zone of the
\* runtime ("Mon Jan 15 2024"), here as the number of that day.
ToDateString(time, zone) == (time + zone) \div MinutesPerDay

\* new Date(dateStr) of a text that toDateString() wrote: midnight of that
\* day in the zone of the runtime.
DateOfDateString(day, zone) == day * MinutesPerDay - zone

----------------------------------------------------------------------------
(* Map, in insertion order: a sequence of entries [key, value] *)

MapHas(map, key) == \E k \in 1..Len(map) : map[k].key = key

MapGet(map, key) == map[CHOOSE k \in 1..Len(map) : map[k].key = key].value

\* Map.prototype.set keeps the place of a key the map already holds.
MapSet(map, key, value) ==
    IF MapHas(map, key)
    THEN [k \in 1..Len(map) |->
             IF map[k].key = key THEN [key |-> key, value |-> value] ELSE map[k]]
    ELSE Append(map, [key |-> key, value |-> value])

\* new Map(entries)
RECURSIVE MapOf(_, _)
MapOf(map, entries) ==
    IF entries = <<>> THEN map
    ELSE MapOf(MapSet(map, Head(entries).key, Head(entries).value), Tail(entries))

----------------------------------------------------------------------------
(* parseWorkoutsCSV *)

\* The Error of a row: `Invalid date "${dateStr}" on line ${i + 1}` and the
\* two like it, as the text before the value, the value and the line number.
RowError(text, value, line) ==
    [message |-> <<text>>, value |-> value, line |-> line]

\* The exercises.map(ex => [ex.name.toLowerCase(), ex]) handed to new Map
CatalogEntries(catalog) ==
    [k \in 1..Len(catalog) |->
        [key |-> ToLowerCase(catalog[k].name), value |-> catalog[k]]]

\* The category of an exercise created for a row
NewCategory(values, indices) ==
    LET cell == CellTrim(values, indices.exerciseCategory)
        categoryRaw == IF cell = Undefined THEN Undefined ELSE ToLowerCase(cell)
    IN  IF indices.exerciseCategory >= 0
           /\ \E k \in 1..Len(validCategories) : validCategories[k] = categoryRaw
        THEN categoryRaw
        ELSE t_full_body

\* The first statements: trim and split, the check of the number of lines,
\* the header resolution, the checks of the required columns and the maps.
Start ==
    /\ woPc = "start"
    /\ LET split   == TrimSplit(csvContent)
           headers == Headers(split[1])
       IN  /\ woLines' = split
           /\ IF Len(split) < 2
              THEN /\ woError' = TooFewLinesError
                   /\ woPc' = "failed"
                   /\ UNCHANGED woIdx
              ELSE /\ woIdx' = WorkoutHeaderIndices(headers)
                   /\ woError' = WorkoutHeaderError(headers)
                   /\ woPc' = IF WorkoutHeaderError(headers) = NoError
                              THEN "rows" ELSE "failed"
    /\ workoutMap' = <<>>
    /\ exerciseMap' = MapOf(<<>>, CatalogEntries(exercises))
    /\ newExercises' = <<>>
    /\ woI' = 1
    /\ UNCHANGED <<tz, csvContent, exercises, nextId, woResult,
                   tkVars, hdVars, exVars>>

\* One pass of the for loop: lines[i], i 0-based as in the code. The set
\* record carries the index of its line, which the code does not keep.
ProcessLine ==
    /\ woPc = "rows"
    /\ woI < Len(woLines)
    /\ LET values       == woLines[woI + 1]
           dateStr      == CellTrim(values, woIdx.date)
           exerciseName == CellTrim(values, woIdx.exerciseName)
           repsStr      == CellTrim(values, woIdx.reps)
           setNumberStr == CellTrim(values, woIdx.setNumber)
           date         == DateTime(dateStr, tz)
           reps         == ParseInt(repsStr)
           setNumber    == ParseInt(setNumberStr)
           key          == ToLowerCase(exerciseName)
           known        == MapHas(exerciseMap, key)
           exercise     == IF known THEN MapGet(exerciseMap, key)
                           ELSE [id       |-> nextId + 1,
                                 name     |-> exerciseName,
                                 category |-> NewCategory(values, woIdx)]
           set          == [exerciseId   |-> exercise.id,
                            reps         |-> reps.value,
                            notes        |-> IF woIdx.setNotes >= 0
                                             THEN CellTrim(values, woIdx.setNotes)
                                             ELSE Undefined,
                            setNumber    |-> setNumber.value,
                            exerciseName |-> exerciseName,
                            line         |-> woI]
           dateKey      == ToDateString(date.value, tz)
           workoutNotes == CellTrim(values, woIdx.workoutNotes)
           old          == IF MapHas(workoutMap, dateKey)
                           THEN MapGet(workoutMap, dateKey)
                           ELSE [sets |-> <<>>, notes |-> Undefined]
           workout      == [sets  |-> Append(old.sets, set),
                            notes |-> IF /\ woIdx.workoutNotes >= 0
                                         /\ ~Falsy(workoutNotes)
                                         /\ Falsy(old.notes)
                                      THEN workoutNotes
                                      ELSE old.notes]
       IN  IF \/ values = BlankLine
              \/ Falsy(dateStr) \/ Falsy(exerciseName)
              \/ Falsy(repsStr) \/ Falsy(setNumberStr)
           THEN /\ woI' = woI + 1
                /\ UNCHANGED <<workoutMap, exerciseMap, newExercises, nextId,
                               woError, woPc>>
           ELSE IF date.nan
           THEN /\ woError' = RowError("Invalid date", dateStr, woI + 1)
                /\ woPc' = "failed"
                /\ UNCHANGED <<workoutMap, exerciseMap, newExercises, nextId, woI>>
           ELSE IF reps.nan \/ reps.value < 0
           THEN /\ woError' = RowError("Invalid reps", repsStr, woI + 1)
                /\ woPc' = "failed"
                /\ UNCHANGED <<workoutMap, exerciseMap, newExercises, nextId, woI>>
           ELSE IF setNumber.nan \/ setNumber.value < 1
           THEN /\ woError' = RowError("Invalid set number", setNumberStr, woI + 1)
                /\ woPc' = "failed"
                /\ UNCHANGED <<workoutMap, exerciseMap, newExercises, nextId, woI>>
           ELSE /\ exerciseMap' = IF known THEN exerciseMap
                                  ELSE MapSet(exerciseMap, key, exercise)
                /\ newExercises' = IF known THEN newExercises
                                   ELSE Append(newExercises, exercise)
                /\ nextId' = IF known THEN nextId ELSE nextId + 1
                /\ workoutMap' = MapSet(workoutMap, dateKey, workout)
                /\ woI' = woI + 1
                /\ UNCHANGED <<woError, woPc>>
    /\ UNCHANGED <<tz, csvContent, exercises, woLines, woIdx, woResult,
                   tkVars, hdVars, exVars>>

\* exerciseGroups: the sets of a day grouped by set.exerciseName, the groups
\* in the order of their first set
RECURSIVE GroupSets(_, _)
GroupSets(groups, sets) ==
    IF sets = <<>> THEN groups
    ELSE LET set == Head(sets)
             old == IF MapHas(groups, set.exerciseName)
                    THEN MapGet(groups, set.exerciseName)
                    ELSE <<>>
         IN  GroupSets(MapSet(groups, set.exerciseName, Append(old, set)),
                       Tail(sets))

\* One set put into a sequence sorted by setNumber, after the sets that do
\* not come after it
RECURSIVE InsertSorted(_, _)
InsertSorted(sorted, set) ==
    IF sorted = <<>> THEN <<set>>
    ELSE IF sorted[Len(sorted)].setNumber - set.setNumber <= 0
    THEN Append(sorted, set)
    ELSE Append(InsertSorted(SubSeq(sorted, 1, Len(sorted) - 1), set),
                sorted[Len(sorted)])

\* exerciseSets.sort((a, b) => a.setNumber - b.setNumber): a stable sort
RECURSIVE SortBySetNumber(_, _)
SortBySetNumber(sorted, sets) ==
    IF sets = <<>> THEN sorted
    ELSE SortBySetNumber(InsertSorted(sorted, Head(sets)), Tail(sets))

\* orderedSets: the sorted groups one after another
RECURSIVE OrderedSets(_)
OrderedSets(groups) ==
    IF groups = <<>> THEN <<>>
    ELSE SortBySetNumber(<<>>, Head(groups).value) \o OrderedSets(Tail(groups))

\* The object built for one entry of workoutMap; first is the number of
\* identifiers handed out before it.
WorkoutOf(entry, zone, first) ==
    LET orderedSets == OrderedSets(GroupSets(<<>>, entry.value.sets))
    IN  [id    |-> first + 1,
         date  |-> DateOfDateString(entry.key, zone),
         sets  |-> [k \in 1..Len(orderedSets) |->
                       [id         |-> first + 1 + k,
                        exerciseId |-> orderedSets[k].exerciseId,
                        reps       |-> orderedSets[k].reps,
                        notes      |-> orderedSets[k].notes,
                        line       |-> orderedSets[k].line]],
         notes |-> entry.value.notes]

\* Array.from(workoutMap.entries()).map(...)
RECURSIVE WorkoutsOf(_, _, _)
WorkoutsOf(entries, zone, first) ==
    IF entries = <<>> THEN <<>>
    ELSE LET workout == WorkoutOf(Head(entries), zone, first)
         IN  <<workout>> \o
             WorkoutsOf(Tail(entries), zone, first + 1 + Len(workout.sets))

\* The number of sets of a sequence of workouts
RECURSIVE CountSets(_)
CountSets(workouts) ==
    IF workouts = <<>> THEN 0
    ELSE Len(Head(workouts).sets) + CountSets(Tail(workouts))

\* The statements after the loop: the workouts are built and returned.
BuildWorkouts ==
    /\ woPc = "rows"
    /\ woI = Len(woLines)
    /\ LET workouts == WorkoutsOf(workoutMap, tz, nextId)
       IN  /\ woResult' = [workouts     |-> workouts,
                           newExercises |-> newExercises,
                           returned     |-> TRUE]
           /\ nextId' = nextId + Len(workouts) + CountSets(workouts)
    /\ woPc' = "done"
    /\ UNCHANGED <<tz, csvContent, exercises, woLines, woIdx, woI, workoutMap,
                   exerciseMap, newExercises, woError, tkVars, hdVars, exVars>>

Next == Start \/ ProcessLine \/ BuildWorkouts

----------------------------------------------------------------------------
(* The workout files, catalogs and time zones of the model *)

d_15 == <<"2", "0", "2", "4", "-", "0", "1", "-", "1", "5">>
d_15_time == <<"2", "0", "2", "4", "-", "0", "1", "-", "1", "5", " ", "1", "0", ":", "0", "0">>
d_16 == <<"2", "0", "2", "4", "-", "0", "1", "-", "1", "6">>
d_none == <<"n", "/", "a">>
n_Squats == <<"S", "q", "u", "a", "t", "s">>
n_squats == <<"s", "q", "u", "a", "t", "s">>
n_Squats_padded == <<"S", "q", "u", "a", "t", "s", " ">>
v_0 == <<"0">>
v_1 == <<"1">>
v_2 == <<"2">>
v_5 == <<"5">>
v_minus1 == <<"-", "1">>
v_abc == <<"a", "b", "c">>
v_5x == <<"5", "x">>

WorkoutHeaderRow == <<c_Date, c_exerciseName, c_setNumber, c_reps>>

\* Rows that pass every check: the same set on a day written without and
\* with a time and on the next day, and two sets each of three spellings
ValidRows ==
    {<<d, n_Squats, v_1, v_5>> : d \in {d_15, d_15_time, d_16}}
    \cup {<<d_15, n, s, v_5>> : n \in {n_Squats, n_squats, n_Plank}, s \in {v_1, v_2}}

\* Rows that are skipped or that fail a check, and a row that parseInt reads
\* up to its first letter
OtherRows ==
    {<<d_none, n_Squats, v_1, v_5>>,
     <<d_15, <<>>, v_1, v_5>>,
     <<d_15>>,
     <<d_15, n_Squats, v_0, v_5>>,
     <<d_15, n_Squats, v_1, v_minus1>>,
     <<d_15, n_Squats, v_1, v_abc>>,
     <<d_15, n_Squats, v_1, v_5x>>}

DataLines == ValidRows \cup OtherRows \cup {BlankLine}

Catalogs ==
    {<<>>,
     <<[id |-> 1, name |-> n_Squats, category |-> t_legs]>>,
     <<[id |-> 1, name |-> n_Squats_padded, category |-> t_legs]>>}

\* Minutes east of UTC: a zone west of UTC and a zone east of it
TimeZones == {-300, 120}

Init ==
    /\ IdleLine
    /\ IdleHeaders
    /\ IdleExercises
    /\ tz \in TimeZones
    /\ exercises \in Catalogs
    /\ \E blank \in 0..MaxLeadingBlank :
       \E n \in 0..MaxRows :
       \E rows \in [1..n -> DataLines] :
           csvContent = [k \in 1..blank |-> BlankLine] \o <<WorkoutHeaderRow>> \o rows
    /\ woLines = <<>>
    /\ woIdx = NoIndices
    /\ woI = 0
    /\ workoutMap = <<>>
    /\ exerciseMap = <<>>
    /\ newExercises = <<>>
    /\ nextId = Len(exercises)
    /\ woResult = NoResult
    /\ woError = NoError
    /\ woPc = "start"

Spec == Init /\ [][Next]_vars

----------------------------------------------------------------------------
(* Claims about parseWorkoutsCSV *)

\* The 0-based indices of the data lines of lines
DataLineIndices == 1..(Len(woLines) - 1)

\* values[index]?.trim() of the data line j for a role
FieldOf(j, role) == CellTrim(woLines[j + 1], woIdx[role])

\* The data line j is not blank and has a date, a name, reps and a set number.
Complete(j) ==
    /\ woLines[j + 1] # BlankLine
    /\ \A role \in {"date", "exerciseName", "reps", "setNumber"} :
           ~Falsy(FieldOf(j, role))

\* The text is an integer in decimal notation: an optional sign and digits,
\* nothing else.
IsIntegerText(s) ==
    LET body == IF s # <<>> /\ Head(s) \in {"+", "-"} THEN Tail(s) ELSE s
    IN  body # <<>> /\ \A k \in 1..Len(body) : IsDigit(body[k])

\* The reps field of the data line j is a non-negative integer and its
\* setNumber field an integer that is at least 1.
IntegersValid(j) ==
    /\ IsIntegerText(FieldOf(j, "reps"))
    /\ ParseInt(FieldOf(j, "reps")).value >= 0
    /\ IsIntegerText(FieldOf(j, "setNumber"))
    /\ ParseInt(FieldOf(j, "setNumber")).value >= 1

DateValid(j) == ~DateTime(FieldOf(j, "date"), tz).nan

\* The calendar day the date text of the data line j names: its YYYY-MM-DD
WrittenDay(j) == SubSeq(FieldOf(j, "date"), 1, 10)

\* The set number of the row a returned set came from
SetNumberOf(set) == ParseInt(FieldOf(set.line, "setNumber")).value

\* The lines of the sets of a returned workout
LinesOf(workout) == {workout.sets[k].line : k \in 1..Len(workout.sets)}

\* The row of a workout in which an exercise was first seen
FirstSeen(workout, exerciseId) ==
    CHOOSE j \in LinesOf(workout) :
        /\ \E k \in 1..Len(workout.sets) :
               workout.sets[k].line = j /\ workout.sets[k].exerciseId = exerciseId
        /\ \A k \in 1..Len(workout.sets) :
               workout.sets[k].exerciseId = exerciseId => j <= workout.sets[k].line

Returned == woResult.workouts

\* C1: in every returned workout the sets that reference the same exercise
\* (the same exerciseId, whatever the letter case of the name on their rows)
\* are in non-decreasing order of their rows' setNumber, and the distinct
\* exercises appear in the order in which each was first seen among that
\* day's rows.
C1_SetsOrderedWithinExercise ==
    woPc = "done" =>
        \A w \in 1..Len(Returned) :
            LET sets == Returned[w].sets IN
            \A p, q \in 1..Len(sets) :
                p < q =>
                    IF sets[p].exerciseId = sets[q].exerciseId
                    THEN SetNumberOf(sets[p]) <= SetNumberOf(sets[q])
                    ELSE FirstSeen(Returned[w], sets[p].exerciseId)
                             < FirstSeen(Returned[w], sets[q].exerciseId)

\* C2: any two accepted rows whose date texts name the same calendar day,
\* with or without a time of day, have their sets in the same returned
\* workout, no two returned workouts have the same calendar day, and there
\* is exactly one workout per calendar day named in the input.
C2_OneWorkoutPerCalendarDay ==
    woPc = "done" =>
        LET accepted == {j \in DataLineIndices : Complete(j)} IN
        /\ \A a, b \in accepted :
               WrittenDay(a) = WrittenDay(b) =>
                   \E w \in 1..Len(Returned) : {a, b} \subseteq LinesOf(Returned[w])
        /\ \A v, w \in 1..Len(Returned) :
               v # w => ToDateString(Returned[v].date, tz)
                            # ToDateString(Returned[w].date, tz)
        /\ Len(Returned) = Cardinality({WrittenDay(j) : j \in accepted})

\* C3: when parseWorkoutsCSV returns, every data row that is not blank, has
\* its four required fields, a valid date and valid integer fields
\* contributes exactly one set and every other row none, so the number of
\* sets of all returned workouts is the number of those rows.
C3_OneSetPerValidRow ==
    woPc = "done" =>
        LET valid == {j \in DataLineIndices :
                         Complete(j) /\ DateValid(j) /\ IntegersValid(j)}
        IN  /\ CountSets(Returned) = Cardinality(valid)
            /\ \A j \in DataLineIndices :
                   Cardinality({<<w, k>> \in (1..Len(Returned)) \X (1..MaxRows) :
                                    /\ k <= Len(Returned[w].sets)
                                    /\ Returned[w].sets[k].line = j})
                       = IF j \in valid THEN 1 ELSE 0

\* C4: after a successful call newExercises holds no two exercises whose
\* names are equal ignoring case, and none whose lower-cased, trimmed name
\* is that of an exercise of the supplied catalog.
C4_NewExercisesUniqueByName ==
    woPc = "done" =>
        /\ \A a, b \in 1..Len(woResult.newExercises) :
               a # b => ToLowerCase(woResult.newExercises[a].name)
                            # ToLowerCase(woResult.newExercises[b].name)
        /\ \A a \in 1..Len(woResult.newExercises) :
           \A c \in 1..Len(exercises) :
               ToLowerCase(Trim(woResult.newExercises[a].name))
                   # ToLowerCase(Trim(exercises[c].name))

\* C5: a complete data row with a valid date whose reps field is not a
\* non-negative integer, or whose setNumber field is not an integer that is
\* at least 1, makes the whole import fail and return nothing: the loop goes
\* past a complete row only when both fields are such integers.
C5_NonIntegerFieldsFail ==
    /\ woPc \in {"rows", "done"} =>
           \A j \in DataLineIndices :
               (j < woI /\ Complete(j) /\ DateValid(j)) => IntegersValid(j)
    /\ woPc = "failed" => woResult = NoResult

\* The error was thrown for a row.
IsRowError(e) == "line" \in DOMAIN e

\* The line of the raw text (1-indexed) that holds the header row
HeaderPosition ==
    CHOOSE p \in 1..Len(csvContent) :
        csvContent[p] # BlankLine /\ \A r \in 1..(p - 1) : csvContent[r] = BlankLine

\* The line p of the raw text is a complete row that one of the three
\* checks of the loop rejects.
Rejected(p) ==
    LET values == csvContent[p]
        field(role) == CellTrim(values, woIdx[role])
    IN  /\ values # BlankLine
        /\ \A role \in {"date", "exerciseName", "reps", "setNumber"} :
               ~Falsy(field(role))
        /\ \/ DateTime(field("date"), tz).nan
           \/ ParseInt(field("reps")).nan \/ ParseInt(field("reps")).value < 0
           \/ ParseInt(field("setNumber")).nan
           \/ ParseInt(field("setNumber")).value < 1

\* C6: when parseWorkoutsCSV aborts on a row error, the line number of the
\* error is the 1-indexed position of the offending line in the raw input
\* text, also when blank lines come before or between the rows.
C6_ErrorLineIsRawPosition ==
    (woPc = "failed" /\ IsRowError(woError)) =>
        /\ woError.line \in (HeaderPosition + 1)..Len(csvContent)
        /\ Rejected(woError.line)
        /\ \A p \in (HeaderPosition + 1)..(woError.line - 1) : ~Rejected(p)

=============================================================================
